---- MODULE Spec2Model ----
(***************************************************************************)
(* A model of the 24-bit BMP codec of src/src/bmp.rs: RgbImage::save_bmp   *)
(* (encoder + File::create/write_all) and RgbImage::load_bmp (File::open/  *)
(* read_to_end + read_header, read_info_header, read_pixels).              *)
(*                                                                         *)
(* u32 values are kept at their full width.  A u32 is the record           *)
(* [hi, lo] of its two 16-bit halves, so every one of the 2^32 values is   *)
(* representable and the product of two of them can be formed digit by     *)
(* digit.  u16 and u8 values are naturals.                                 *)
(***************************************************************************)
EXTENDS Integers, Sequences, FiniteSets, TLC

VARIABLES
    overflow_checks, \* build profile: TRUE = arithmetic overflow panics (debug), FALSE = wraps (release)
    image,           \* the RgbImage save_bmp is called on (self)
    file,            \* the file at file_path: [exists, data]
    spc,             \* position of the save_bmp call
    sbuff,           \* save_bmp: buff
    swritten,        \* save_bmp: bytes of buff that write_all has written so far
    sres,            \* save_bmp: its outcome
    lpc,             \* position of the load_bmp call
    buff,            \* load_bmp: buff
    src,             \* load_bmp: the slice src still to be parsed
    width,           \* load_bmp: width
    height,          \* load_bmp: height
    lres,            \* load_bmp: its outcome
    log              \* the parse functions load_bmp has entered and the checks they decided, in order

vars == <<overflow_checks, image, file, spc, sbuff, swritten, sres,
          lpc, buff, src, width, height, lres, log>>

-----------------------------------------------------------------------------
(* u32 arithmetic *)

\* the element of a one-element set: Only({e(v) : v \in {x}}) is e(x) with x
\* evaluated once
Only(S) == CHOOSE v \in S : TRUE

U32(n) == [hi |-> n \div 65536, lo |-> n % 65536]

\* `x as usize` of a u32 below 2^31
ToNat(u) == u.hi * 65536 + u.lo

Digits(u) == <<u.lo % 256, u.lo \div 256, u.hi % 256, u.hi \div 256>>

FromDigits(d) == [hi |-> d[3] + 256 * d[4], lo |-> d[1] + 256 * d[2]]

\* column k (0-based) of the schoolbook product of two 4-digit numbers
Column(a, b, k) ==
    LET term(i) == IF k - i >= 0 /\ k - i <= 3 THEN a[i + 1] * b[k - i + 1] ELSE 0
    IN  term(0) + term(1) + term(2) + term(3)

RECURSIVE Carry(_, _, _, _)
\* the 8 base-256 digits of the full 64-bit product
Carry(a, b, k, c) ==
    IF k = 8 THEN <<>>
    ELSE LET s == Column(a, b, k) + c
         IN  <<s % 256>> \o Carry(a, b, k + 1, s \div 256)

WideMul(x, y) == Carry(Digits(x), Digits(y), 0, 0)

\* x * y on u32: val is the wrapped product, ov tells whether it overflowed
CheckedMul(x, y) ==
    Only({[val |-> FromDigits(SubSeq(d, 1, 4)),
           ov  |-> d[5] + d[6] + d[7] + d[8] > 0] : d \in {WideMul(x, y)}})

\* x + y on u32
CheckedAdd(x, y) ==
    LET lo == x.lo + y.lo
        hi == x.hi + y.hi + lo \div 65536
    IN  [val |-> [hi |-> hi % 65536, lo |-> lo % 65536], ov |-> hi >= 65536]

\* x - y on u32
CheckedSub(x, y) ==
    LET borrow == IF x.lo < y.lo THEN 1 ELSE 0
        lo == x.lo + 65536 * borrow - y.lo
        hi == x.hi - y.hi - borrow
    IN  [val |-> [hi |-> hi % 65536, lo |-> lo], ov |-> hi < 0]

Lt(x, y) == x.hi < y.hi \/ (x.hi = y.hi /\ x.lo < y.lo)

Bit(u, k) == IF k < 16 THEN (u.lo \div 2 ^ k) % 2 ELSE (u.hi \div 2 ^ (k - 16)) % 2

SetBit(u, k) == IF k < 16 THEN [u EXCEPT !.lo = @ + 2 ^ k] ELSE [u EXCEPT !.hi = @ + 2 ^ (k - 16)]

RECURSIVE LongDiv(_, _, _, _, _)
\* binary long division, from bit k down to bit 0; r may hold 33 bits in its hi half
LongDiv(x, y, k, q, r) ==
    IF k < 0 THEN [quot |-> q, rem |-> r]
    ELSE LET r2 == [hi |-> 2 * r.hi + r.lo \div 32768, lo |-> ((2 * r.lo) % 65536) + Bit(x, k)]
         IN  IF Lt(r2, y) THEN LongDiv(x, y, k - 1, q, r2)
             ELSE LongDiv(x, y, k - 1, SetBit(q, k), CheckedSub(r2, y).val)

\* x / y and x % y on u32, y # 0
Div(x, y) == LongDiv(x, y, 31, U32(0), U32(0)).quot
Rem(x, y) == LongDiv(x, y, 31, U32(0), U32(0)).rem

-----------------------------------------------------------------------------
(* Values *)

Rgb_new(r, g, b) == [r |-> r, g |-> g, b |-> b]

Rgb_default == Rgb_new(0, 0, 0)

RgbImage_new(pixels, w) == [pixels |-> pixels, width |-> w]

\* Error: u16 payloads are widened to the u32 record so that all errors compare
Error(tag, val) == [tag |-> tag, val |-> val]
FileError == Error("FileError", U32(0))
InvalidSignature == Error("InvalidSignature", U32(0))
InvalidHeaderSize(v) == Error("InvalidHeaderSize", v)
UnsupportedPlaneCount(v) == Error("UnsupportedPlaneCount", U32(v))
UnsupportedColorDepth(v) == Error("UnsupportedColorDepth", U32(v))
UnsupportedCompression(v) == Error("UnsupportedCompression", v)

NoError == Error("", U32(0))
NoImage == RgbImage_new(<<>>, U32(0))

\* outcomes of a call: not finished, Ok(value), Err(error), or a panic
Pending == [kind |-> "none", err |-> NoError, image |-> NoImage]
Ok(img) == [kind |-> "Ok", err |-> NoError, image |-> img]
Err(e) == [kind |-> "Err", err |-> e, image |-> NoImage]
Panic(msg) == [kind |-> "panic", err |-> Error(msg, U32(0)), image |-> NoImage]

-----------------------------------------------------------------------------
(* Binary field primitives *)

write_u32(b, val) == b \o Digits(val)

write_u16(b, val) == b \o <<val % 256, val \div 256>>

write_u8(b, val) == Append(b, val)

Rest(s, n) == SubSeq(s, n + 1, Len(s))

\* bytes[0] | bytes[1] << 8 | bytes[2] << 16 | bytes[3] << 24: the shifted bytes
\* occupy disjoint bits, so each | is a sum
read_u32(s) ==
    IF Len(s) < 4 THEN [ok |-> FALSE, src |-> s, val |-> U32(0)]
    ELSE [ok |-> TRUE, src |-> Rest(s, 4),
          val |-> [hi |-> s[3] + 256 * s[4], lo |-> s[1] + 256 * s[2]]]

read_u16(s) ==
    IF Len(s) < 2 THEN [ok |-> FALSE, src |-> s, val |-> 0]
    ELSE [ok |-> TRUE, src |-> Rest(s, 2), val |-> s[1] + 256 * s[2]]

read_u8(s) ==
    IF Len(s) < 1 THEN [ok |-> FALSE, src |-> s, val |-> 0]
    ELSE [ok |-> TRUE, src |-> Rest(s, 1), val |-> s[1]]

-----------------------------------------------------------------------------
(* Encoder: RgbImage::save_bmp up to the buffer it hands to File::create *)

MulOverflow == "attempt to multiply with overflow"
AddOverflow == "attempt to add with overflow"
SubOverflow == "attempt to subtract with overflow"
DivByZero == "attempt to divide by zero"
SliceIndex == "range end index out of range for slice"
IndexOutOfBounds == "index out of bounds"

\* (4 - ((width * 3) % 4)) % 4, given the (wrapped) product width * 3
PaddingOf(w3) == Rem(CheckedSub(U32(4), Rem(w3, U32(4))).val, U32(4))

\* save_bmp's locals: padding, height, file_size, data_offset; panic = "" when
\* the arithmetic went through
save_bmp_locals(self, oc) ==
    LET len  == U32(Len(self.pixels))
        header_size == U32(14)
        info_header_size == U32(40)
        none == [panic |-> "", padding |-> U32(0), height |-> U32(0),
                 file_size |-> U32(0), data_offset |-> U32(0)]
        \* after width * 3 = w3
        rest(w3) ==
            IF oc /\ w3.ov THEN [none EXCEPT !.panic = MulOverflow]
            ELSE IF self.width = U32(0) THEN [none EXCEPT !.panic = DivByZero]
            ELSE Only({
                Only({
                    LET s0 == CheckedAdd(header_size, info_header_size)
                        s1 == CheckedAdd(s0.val, hp.val)
                        s2 == CheckedAdd(s1.val, l3.val)
                    IN  IF oc /\ (hp.ov \/ l3.ov) THEN [none EXCEPT !.panic = MulOverflow]
                        ELSE IF oc /\ (s0.ov \/ s1.ov \/ s2.ov)
                        THEN [none EXCEPT !.panic = AddOverflow]
                        ELSE [panic |-> "", padding |-> padding, height |-> hgt,
                              file_size |-> s2.val, data_offset |-> s0.val] :
                    hp \in {CheckedMul(hgt, padding)}, l3 \in {CheckedMul(len, U32(3))}}) :
                padding \in {PaddingOf(w3.val)}, hgt \in {Div(len, self.width)}})
    IN  Only({rest(w3) : w3 \in {CheckedMul(self.width, U32(3))}})

\* the 14-byte file header
save_bmp_header(file_size, data_offset) ==
    LET b1 == write_u8(<<>>, 66)       \* 'B'
        b2 == write_u8(b1, 77)         \* 'M'
        b3 == write_u32(b2, file_size)
        b4 == write_u32(b3, U32(0))    \* unused
    IN  write_u32(b4, data_offset)

\* the 40-byte info header, appended to b
save_bmp_info_header(b, w, h) ==
    LET b1  == write_u32(b, U32(40))
        b2  == write_u32(b1, w)
        b3  == write_u32(b2, h)
        b4  == write_u16(b3, 1)         \* planes
        b5  == write_u16(b4, 24)        \* bits per pixel
        b6  == write_u32(b5, U32(0))    \* compression
        b7  == write_u32(b6, U32(0))    \* compressed size
        b8  == write_u32(b7, w)         \* horizontal pixel/meter
        b9  == write_u32(b8, h)         \* vertical pixel/meter
        b10 == write_u32(b9, [hi |-> 256, lo |-> 0])  \* used colors, 16777216 = 2^24
    IN  write_u32(b10, U32(0))          \* important colors

RECURSIVE save_bmp_row(_, _, _, _)
\* for j in 0..width of logical row i, from column j on, appended to b
save_bmp_row(b, self, i, j) ==
    IF ~Lt(U32(j), self.width) THEN b
    ELSE Only({
             LET b1 == write_u8(b, self.pixels[index + 1].b)
                 b2 == write_u8(b1, self.pixels[index + 1].g)
                 b3 == write_u8(b2, self.pixels[index + 1].r)
             IN  save_bmp_row(b3, self, i, j + 1) :
             index \in {ToNat(CheckedAdd(CheckedMul(U32(i), self.width).val, U32(j)).val)}})

RECURSIVE save_bmp_padding(_, _, _)
\* for _ in 0..padding, from iteration k on
save_bmp_padding(b, k, padding) ==
    IF ~Lt(U32(k), padding) THEN b ELSE save_bmp_padding(write_u8(b, 0), k + 1, padding)

RECURSIVE save_bmp_pixels(_, _, _, _, _)
\* for i in 0..height, from on-disk row i on
save_bmp_pixels(b, self, i, h, padding) ==
    IF ~Lt(U32(i), h) THEN b
    ELSE LET row == ToNat(CheckedSub(CheckedSub(h, U32(i)).val, U32(1)).val)
             b1  == save_bmp_row(b, self, row, 0)
         IN  save_bmp_pixels(save_bmp_padding(b1, 0, padding), self, i + 1, h, padding)

\* save_bmp up to line 111: the buffer, or the panic that ended the call
save_bmp_buff(self, oc) ==
    Only({
        IF l.panic # "" THEN [panic |-> l.panic, buff |-> <<>>]
        ELSE LET hdr  == save_bmp_header(l.file_size, l.data_offset)
                 info == save_bmp_info_header(hdr, self.width, l.height)
             IN  [panic |-> "", buff |-> save_bmp_pixels(info, self, 0, l.height, l.padding)] :
        l \in {save_bmp_locals(self, oc)}})

-----------------------------------------------------------------------------
(* Decoder: read_header, read_info_header, read_pixels *)

read_header(s) ==
    IF Len(s) < 14 THEN [out |-> Panic(SliceIndex), src |-> s, log |-> <<"read_header">>]   \* dbg!(&src[..14])
    ELSE LET letter_b    == read_u8(s)
             letter_m    == read_u8(letter_b.src)
             file_size   == read_u32(letter_m.src)
             reserved    == read_u32(file_size.src)
             data_offset == read_u32(reserved.src)
         IN  IF ~(letter_b.ok /\ letter_m.ok /\ file_size.ok /\ reserved.ok /\ data_offset.ok)
             THEN [out |-> Err(FileError), src |-> s, log |-> <<"read_header">>]
             ELSE IF letter_b.val # 66
             THEN [out |-> Err(InvalidSignature), src |-> s, log |-> <<"read_header", "check_signature">>]
             ELSE IF letter_m.val # 77
             THEN [out |-> Err(InvalidSignature), src |-> s, log |-> <<"read_header", "check_signature">>]
             ELSE [out |-> Ok(NoImage), src |-> data_offset.src, log |-> <<"read_header", "check_signature">>]

\* read_info_header's reads with bits_per_pixel read before planes
read_info_header_fields_swapped(s) ==
    LET header_size    == read_u32(s)
        w              == read_u32(header_size.src)
        h              == read_u32(w.src)
        bits_per_pixel == read_u16(h.src)
        planes         == read_u16(bits_per_pixel.src)
        compression    == read_u32(planes.src)
        file_size      == read_u32(compression.src)
        horiz          == read_u32(file_size.src)
        vert           == read_u32(horiz.src)
        colors_used    == read_u32(vert.src)
        important      == read_u32(colors_used.src)
    IN  [ok |-> header_size.ok /\ w.ok /\ h.ok /\ planes.ok /\ bits_per_pixel.ok
                /\ compression.ok /\ file_size.ok /\ horiz.ok /\ vert.ok
                /\ colors_used.ok /\ important.ok,
         src |-> important.src,
         header_size |-> header_size.val, width |-> w.val, height |-> h.val,
         planes |-> planes.val, bits_per_pixel |-> bits_per_pixel.val,
         compression |-> compression.val]

\* read_info_header, the eleven reads (lines 150-160): ok tells whether every
\* read found its bytes
read_info_header_fields(s) ==
    LET header_size    == read_u32(s)
        w              == read_u32(header_size.src)
        h              == read_u32(w.src)
        planes         == read_u16(h.src)
        bits_per_pixel == read_u16(planes.src)
        compression    == read_u32(bits_per_pixel.src)
        file_size      == read_u32(compression.src)
        horiz          == read_u32(file_size.src)
        vert           == read_u32(horiz.src)
        colors_used    == read_u32(vert.src)
        important      == read_u32(colors_used.src)
    IN  [ok |-> header_size.ok /\ w.ok /\ h.ok /\ planes.ok /\ bits_per_pixel.ok
                /\ compression.ok /\ file_size.ok /\ horiz.ok /\ vert.ok
                /\ colors_used.ok /\ important.ok,
         src |-> important.src,
         header_size |-> header_size.val, width |-> w.val, height |-> h.val,
         planes |-> planes.val, bits_per_pixel |-> bits_per_pixel.val,
         compression |-> compression.val]

\* read_info_header's checks with compression checked first
read_info_header_checks_reordered(f) ==
    IF f.compression # U32(0)
    THEN [out |-> Err(UnsupportedCompression(f.compression)),
          log |-> <<"check_compression">>]
    ELSE IF f.header_size # U32(40)
    THEN [out |-> Err(InvalidHeaderSize(f.header_size)),
          log |-> <<"check_compression", "check_header_size">>]
    ELSE IF f.planes # 1
    THEN [out |-> Err(UnsupportedPlaneCount(f.planes)),
          log |-> <<"check_compression", "check_header_size", "check_planes">>]
    ELSE IF f.bits_per_pixel # 24
    THEN [out |-> Err(UnsupportedColorDepth(f.bits_per_pixel)),
          log |-> <<"check_compression", "check_header_size", "check_planes",
                    "check_bits_per_pixel">>]
    ELSE [out |-> Ok(NoImage),
          log |-> <<"check_compression", "check_header_size", "check_planes",
                    "check_bits_per_pixel">>]

\* read_info_header, the four checks (lines 162-175) on the fields read: the
\* outcome and the checks decided, in order
read_info_header_checks(f) ==
    IF f.header_size # U32(40)
    THEN [out |-> Err(InvalidHeaderSize(f.header_size)),
          log |-> <<"check_header_size">>]
    ELSE IF f.planes # 1
    THEN [out |-> Err(UnsupportedPlaneCount(f.planes)),
          log |-> <<"check_header_size", "check_planes">>]
    ELSE IF f.bits_per_pixel # 24
    THEN [out |-> Err(UnsupportedColorDepth(f.bits_per_pixel)),
          log |-> <<"check_header_size", "check_planes", "check_bits_per_pixel">>]
    ELSE IF f.compression # U32(0)
    THEN [out |-> Err(UnsupportedCompression(f.compression)),
          log |-> <<"check_header_size", "check_planes", "check_bits_per_pixel",
                    "check_compression">>]
    ELSE [out |-> Ok(NoImage),
          log |-> <<"check_header_size", "check_planes", "check_bits_per_pixel",
                    "check_compression">>]

read_info_header(s) ==
    LET none == [out |-> Pending, src |-> s, width |-> U32(0), height |-> U32(0),
                 log |-> <<"read_info_header">>]
        \* after the reads gave f
        rest(f) ==
            IF ~f.ok THEN [none EXCEPT !.out = Err(FileError)]
            ELSE Only({
                IF c.out.kind # "Ok" THEN [none EXCEPT !.out = c.out, !.log = @ \o c.log]
                ELSE [out |-> c.out, src |-> f.src, width |-> f.width, height |-> f.height,
                      log |-> <<"read_info_header">> \o c.log] :
                c \in {read_info_header_checks(f)}})
    IN  IF Len(s) < 40 THEN [none EXCEPT !.out = Panic(SliceIndex)]   \* dbg!(&src[..40])
        ELSE Only({rest(f) : f \in {read_info_header_fields(s)}})

RECURSIVE read_pixels_row(_, _, _, _, _, _)
\* for j in 0..width of destination row i, from column j on
read_pixels_row(s, pixels, i, j, w, oc) ==
    IF ~Lt(U32(j), w) THEN [panic |-> "", ok |-> TRUE, src |-> s, pixels |-> pixels]
    ELSE LET b == read_u8(s)
             g == read_u8(b.src)
             r == read_u8(g.src)
             \* with i * width = iw
             rest(iw) ==
                 Only({
                     IF oc /\ iw.ov
                     THEN [panic |-> MulOverflow, ok |-> FALSE, src |-> s, pixels |-> pixels]
                     ELSE IF oc /\ index.ov
                     THEN [panic |-> AddOverflow, ok |-> FALSE, src |-> s, pixels |-> pixels]
                     ELSE IF ~(b.ok /\ g.ok /\ r.ok)
                     THEN [panic |-> "", ok |-> FALSE, src |-> s, pixels |-> pixels]
                     ELSE IF ~Lt(index.val, U32(Len(pixels)))
                     THEN [panic |-> IndexOutOfBounds, ok |-> FALSE, src |-> s, pixels |-> pixels]
                     ELSE read_pixels_row(r.src,
                                          [pixels EXCEPT ![ToNat(index.val) + 1] =
                                                             Rgb_new(r.val, g.val, b.val)],
                                          i, j + 1, w, oc) :
                     index \in {CheckedAdd(iw.val, U32(j))}})
         IN  Only({rest(iw) : iw \in {CheckedMul(i, w)}})

RECURSIVE read_pixels_padding(_, _, _)
\* for _ in 0..padding, from iteration k on
read_pixels_padding(s, k, padding) ==
    IF ~Lt(U32(k), padding) THEN [ok |-> TRUE, src |-> s]
    ELSE LET p == read_u8(s)
         IN  IF ~p.ok THEN [ok |-> FALSE, src |-> s]
             ELSE read_pixels_padding(p.src, k + 1, padding)

RECURSIVE read_pixels_rows(_, _, _, _, _, _, _)
\* for i in 0..height, from on-disk row i on
read_pixels_rows(s, pixels, i, w, h, padding, oc) ==
    IF ~Lt(U32(i), h) THEN [out |-> Ok(NoImage), src |-> s, pixels |-> pixels]
    ELSE LET dest == CheckedSub(CheckedSub(h, U32(i)).val, U32(1)).val
             \* after the inner loop gave row
             rest(row) ==
                 IF row.panic # "" THEN [out |-> Panic(row.panic), src |-> s, pixels |-> pixels]
                 ELSE IF ~row.ok THEN [out |-> Err(FileError), src |-> s, pixels |-> pixels]
                 ELSE Only({
                     IF ~pad.ok THEN [out |-> Err(FileError), src |-> s, pixels |-> pixels]
                     ELSE read_pixels_rows(pad.src, row.pixels, i + 1, w, h, padding, oc) :
                     pad \in {read_pixels_padding(row.src, 0, padding)}})
         IN  Only({rest(row) : row \in {read_pixels_row(s, pixels, dest, 0, w, oc)}})

read_pixels(s, w, h, oc) ==
    Only({
        IF oc /\ (w3.ov \/ n.ov) THEN [out |-> Panic(MulOverflow), src |-> s, pixels |-> <<>>]
        ELSE read_pixels_rows(s, [k \in 1..ToNat(n.val) |-> Rgb_default], 0, w, h,
                              PaddingOf(w3.val), oc) :
        w3 \in {CheckedMul(w, U32(3))}, n \in {CheckedMul(w, h)}})

-----------------------------------------------------------------------------
(* RgbImage::save_bmp, step by step *)

\* lines 67-111: buff is built in memory; an arithmetic panic ends the call
SaveEncode ==
    /\ spc = "encode"
    /\ \E e \in {save_bmp_buff(image, overflow_checks)} :
           IF e.panic # ""
           THEN /\ spc' = "done"
                /\ sres' = Panic(e.panic)
                /\ sbuff' = sbuff
           ELSE /\ spc' = "create"
                /\ sbuff' = e.buff
                /\ sres' = sres
    /\ UNCHANGED <<overflow_checks, image, file, swritten,
                   lpc, buff, src, width, height, lres, log>>

\* File::create(file_path): the file is created, or truncated to length 0
SaveCreate ==
    /\ spc = "create"
    /\ file' = [exists |-> TRUE, data |-> <<>>]
    /\ swritten' = 0
    /\ spc' = "write"
    /\ UNCHANGED <<overflow_checks, image, sbuff, sres,
                   lpc, buff, src, width, height, lres, log>>

\* write_all: one write(2) call, which takes n >= 1 of the bytes left (one byte
\* or all of them: a write of k bytes leaves the file as k writes of one byte do,
\* so these two reach every file content any other n reaches); with none left
\* write_all returns and save_bmp returns Ok(())
SaveWrite ==
    /\ spc = "write"
    /\ IF swritten = Len(sbuff)
       THEN /\ spc' = "done"
            /\ sres' = Ok(NoImage)
            /\ UNCHANGED <<file, swritten>>
       ELSE /\ \E n \in {1, Len(sbuff) - swritten} :
                 /\ file' = [file EXCEPT !.data = SubSeq(@, 1, swritten)
                                              \o SubSeq(sbuff, swritten + 1, swritten + n)]
                 /\ swritten' = swritten + n
            /\ UNCHANGED <<spc, sres>>
    /\ UNCHANGED <<overflow_checks, image, sbuff,
                   lpc, buff, src, width, height, lres, log>>

-----------------------------------------------------------------------------
(* RgbImage::load_bmp, step by step *)

\* File::open(file_path)?
LoadOpen ==
    /\ lpc = "open"
    /\ IF file.exists
       THEN /\ lpc' = "read"
            /\ lres' = lres
       ELSE /\ lpc' = "done"
            /\ lres' = Err(FileError)
    /\ buff' = <<>>
    /\ UNCHANGED <<overflow_checks, image, file, spc, sbuff, swritten, sres,
                   src, width, height, log>>

\* read_to_end: one read(2) call at offset Len(buff), which returns n >= 1 of the
\* bytes the file holds beyond it (one byte or all of them, as for write), or 0
\* at end of file (read_to_end returns)
LoadRead ==
    /\ lpc = "read"
    /\ IF Len(buff) >= Len(file.data)
       THEN /\ lpc' = "read_header"
            /\ src' = buff
            /\ buff' = buff
       ELSE /\ \E n \in {1, Len(file.data) - Len(buff)} :
                 buff' = buff \o SubSeq(file.data, Len(buff) + 1, Len(buff) + n)
            /\ UNCHANGED <<lpc, src>>
    /\ UNCHANGED <<overflow_checks, image, file, spc, sbuff, swritten, sres,
                   width, height, lres, log>>

\* let src = read_header(&buff)?
ReadHeader ==
    /\ lpc = "read_header"
    /\ \E r \in {read_header(src)} :
           /\ log' = log \o r.log
           /\ IF r.out.kind = "Ok"
              THEN /\ lpc' = "read_info_header"
                   /\ src' = r.src
                   /\ lres' = lres
              ELSE /\ lpc' = "done"
                   /\ src' = src
                   /\ lres' = r.out
    /\ UNCHANGED <<overflow_checks, image, file, spc, sbuff, swritten, sres,
                   buff, width, height>>

\* let (src, width, height) = read_info_header(src)?
ReadInfoHeader ==
    /\ lpc = "read_info_header"
    /\ \E r \in {read_info_header(src)} :
           /\ log' = log \o r.log
           /\ IF r.out.kind = "Ok"
              THEN /\ lpc' = "read_pixels"
                   /\ src' = r.src
                   /\ width' = r.width
                   /\ height' = r.height
                   /\ lres' = lres
              ELSE /\ lpc' = "done"
                   /\ lres' = r.out
                   /\ UNCHANGED <<src, width, height>>
    /\ UNCHANGED <<overflow_checks, image, file, spc, sbuff, swritten, sres, buff>>

\* let (_, pixels) = read_pixels(src, width, height)?; Ok(Self { pixels, width })
ReadPixels ==
    /\ lpc = "read_pixels"
    /\ \E r \in {read_pixels(src, width, height, overflow_checks)} :
           /\ log' = Append(log, "read_pixels")
           /\ lpc' = "done"
           /\ src' = r.src
           /\ lres' = IF r.out.kind = "Ok" THEN Ok(RgbImage_new(r.pixels, width)) ELSE r.out
    /\ UNCHANGED <<overflow_checks, image, file, spc, sbuff, swritten, sres,
                   buff, width, height>>

SaveStep == SaveEncode \/ SaveCreate \/ SaveWrite

LoadStep == LoadOpen \/ LoadRead \/ ReadHeader \/ ReadInfoHeader \/ ReadPixels

-----------------------------------------------------------------------------
(* Inputs *)

MaxPixels == 4
MaxWidth == 2
MaxHeight == 2

\* 0x55555555, the largest width whose product with 3 fits a u32; the next one; u32::MAX
MaxTripled == [hi |-> 21845, lo |-> 21845]
MinOverflowing == [hi |-> 21845, lo |-> 21846]
U32Max == [hi |-> 65535, lo |-> 65535]

Colours == {Rgb_new(255, 0, 0), Rgb_new(1, 2, 3)}

PixelSeqs == UNION {[1..n -> Colours] : n \in 0..MaxPixels}

Widths == {U32(n) : n \in 0..MaxPixels} \cup {MaxTripled, MinOverflowing, U32Max}

Images == {RgbImage_new(p, w) : p \in PixelSeqs, w \in Widths}

NoFile == [exists |-> FALSE, data |-> <<>>]

\* One save_bmp of an image, then one load_bmp of the file it wrote
Init ==
    /\ overflow_checks \in BOOLEAN
    /\ image \in Images
    /\ file = NoFile
    /\ spc = "encode"
    /\ sbuff = <<>>
    /\ swritten = 0
    /\ sres = Pending
    /\ lpc = "open"
    /\ buff = <<>>
    /\ src = <<>>
    /\ width = U32(0)
    /\ height = U32(0)
    /\ lres = Pending
    /\ log = <<>>

Next ==
    \/ SaveStep
    \/ (spc = "done" /\ LoadStep)

Spec == Init /\ [][Next]_vars

-----------------------------------------------------------------------------
(* load_bmp's parse of an arbitrary byte buffer *)

\* bytes of a padded row of w pixels
RowBytes(w) == 4 * ((3 * w + 3) \div 4)

\* the longest buffer: headers, MaxHeight rows of MaxWidth pixels, one byte more
MaxLen == 54 + MaxHeight * RowBytes(MaxWidth) + 1

Signatures == {<<66, 77>>, <<88, 77>>, <<66, 88>>}

\* width and height fields; the huge widths come with height 0 only, the one
\* height whose pixel data fits a buffer
Geometries ==
    {<<U32(w), U32(h)>> : w \in 0..MaxWidth, h \in 0..MaxHeight}
        \cup {<<MaxTripled, U32(0)>>, <<MinOverflowing, U32(0)>>}

\* byte k of what follows the headers: no two neighbours alike, none of them 0
Pattern(k) == 1 + ((16 + 37 * k) % 255)

\* headers with the given validated fields, every other field holding the byte
\* fill four times, then MaxLen - 54 bytes of Pattern
FullBuffer(sig, fill, hs, geo, planes, bpp, comp) ==
    LET f == <<fill, fill, fill, fill>>
    IN  sig \o f \o f \o f
            \o Digits(U32(hs)) \o Digits(geo[1]) \o Digits(geo[2])
            \o <<planes % 256, planes \div 256>> \o <<bpp % 256, bpp \div 256>>
            \o Digits(U32(comp))
            \o f \o f \o f \o f \o f
            \o [k \in 1..(MaxLen - 54) |-> Pattern(k - 1)]

\* buffer lengths: around every field boundary of the headers, and every length from
\* the end of the headers on
Lengths == {0, 1, 2, 13, 14, 17, 29, 53} \cup 54..MaxLen

Buffers ==
    {SubSeq(FullBuffer(sig, fill, hs, geo, planes, bpp, comp), 1, n) :
        sig \in Signatures, fill \in {0, 171}, hs \in {40, 38}, geo \in Geometries,
        planes \in {1, 2}, bpp \in {24, 8}, comp \in {0, 1}, n \in Lengths}

\* load_bmp after read_to_end has filled buff with an arbitrary buffer
InitDecode ==
    /\ overflow_checks \in BOOLEAN
    /\ buff \in Buffers
    /\ src = buff
    /\ file = [exists |-> TRUE, data |-> buff]
    /\ image = NoImage
    /\ spc = "done"
    /\ sbuff = <<>>
    /\ swritten = 0
    /\ sres = Pending
    /\ lpc = "read_header"
    /\ width = U32(0)
    /\ height = U32(0)
    /\ lres = Pending
    /\ log = <<>>

NextDecode == ReadHeader \/ ReadInfoHeader \/ ReadPixels

SpecDecode == InitDecode /\ [][NextDecode]_vars

-----------------------------------------------------------------------------
(* A save_bmp and a load_bmp of the same path at the same time: the tests     *)
(* save_bmp and test_load of lib.rs both use "hello.bmp" and the test harness  *)
(* runs tests on parallel threads.                                             *)

\* what an earlier save_bmp left at the path
OldContents == save_bmp_buff(RgbImage_new(<<Rgb_new(255, 0, 0)>>, U32(1)), FALSE).buff

InitConcurrent ==
    /\ overflow_checks \in BOOLEAN
    /\ image \in {RgbImage_new(<<Rgb_new(1, 2, 3)>>, U32(1)), RgbImage_new(<<>>, U32(1))}
    /\ file \in {NoFile, [exists |-> TRUE, data |-> OldContents]}
    /\ spc = "encode"
    /\ sbuff = <<>>
    /\ swritten = 0
    /\ sres = Pending
    /\ lpc = "open"
    /\ buff = <<>>
    /\ src = <<>>
    /\ width = U32(0)
    /\ height = U32(0)
    /\ lres = Pending
    /\ log = <<>>

NextConcurrent == SaveStep \/ LoadStep

SpecConcurrent == InitConcurrent /\ [][NextConcurrent]_vars

-----------------------------------------------------------------------------
(* The file format of the specification, read off a buffer at fixed offsets *)

\* the little-endian u32 / u16 at byte offset off (0-based)
FieldU32(b, off) == [hi |-> b[off + 3] + 256 * b[off + 4], lo |-> b[off + 1] + 256 * b[off + 2]]
FieldU16(b, off) == b[off + 1] + 256 * b[off + 2]

SignatureOk(b) == b[1] = 66 /\ b[2] = 77
SizeOk(b) == FieldU32(b, 14) = U32(40)
PlanesOk(b) == FieldU16(b, 26) = 1
DepthOk(b) == FieldU16(b, 28) = 24
CompressionOk(b) == FieldU32(b, 30) = U32(0)

\* a buffer of at least 54 bytes passes all five checks
HeaderValid(b) == SignatureOk(b) /\ SizeOk(b) /\ PlanesOk(b) /\ DepthOk(b) /\ CompressionOk(b)

\* the number of the four info-header fields that hold an unsupported value
UnsupportedFields(b) ==
    (IF SizeOk(b) THEN 0 ELSE 1) + (IF PlanesOk(b) THEN 0 ELSE 1)
        + (IF DepthOk(b) THEN 0 ELSE 1) + (IF CompressionOk(b) THEN 0 ELSE 1)

\* the error of the first failing check, in the order of the specification
FirstFailing(b) ==
    IF ~SignatureOk(b) THEN InvalidSignature
    ELSE IF ~SizeOk(b) THEN InvalidHeaderSize(FieldU32(b, 14))
    ELSE IF ~PlanesOk(b) THEN UnsupportedPlaneCount(FieldU16(b, 26))
    ELSE IF ~DepthOk(b) THEN UnsupportedColorDepth(FieldU16(b, 28))
    ELSE IF ~CompressionOk(b) THEN UnsupportedCompression(FieldU32(b, 30))
    ELSE NoError

ValidationErrors ==
    {"InvalidSignature", "InvalidHeaderSize", "UnsupportedPlaneCount",
     "UnsupportedColorDepth", "UnsupportedCompression"}

\* (4 - (width*3) % 4) % 4 on the product as a 64-bit number
TruePadding(w) == (4 - (WideMul(w, U32(3))[1] % 4)) % 4

\* bytes the pixel data of a w x h image takes; a row of a huge width is only
\* asked for with h = 0
PixelDataLen(w, h) == IF h = U32(0) \/ w = U32(0) THEN 0 ELSE ToNat(h) * RowBytes(ToNat(w))

\* the image the specification's layout gives a buffer with a valid header and
\* all its pixel data: pixel (x, y) from offset 54 + (height-1-y)*row + 3*x
ExpectedImage(b) ==
    LET w == FieldU32(b, 18)
        h == FieldU32(b, 22)
        n == IF h = U32(0) \/ w = U32(0) THEN 0 ELSE ToNat(w) * ToNat(h)
        px(k) == LET y   == (k - 1) \div ToNat(w)
                     x   == (k - 1) % ToNat(w)
                     off == 54 + (ToNat(h) - 1 - y) * RowBytes(ToNat(w)) + 3 * x
                 IN  Rgb_new(b[off + 3], b[off + 2], b[off + 1])
    IN  RgbImage_new([k \in 1..n |-> px(k)], w)

IsPrefix(s, t) == Len(s) <= Len(t) /\ s = SubSeq(t, 1, Len(s))

ParseOrder ==
    <<"read_header", "check_signature", "read_info_header", "check_header_size",
      "check_planes", "check_bits_per_pixel", "check_compression", "read_pixels">>

Logged(e) == \E k \in 1..Len(log) : log[k] = e

-----------------------------------------------------------------------------
(* Claims about the decoder, under SpecDecode *)

\* C2: every buffer whose first two bytes are not 'B','M', however short it is,
\* decodes to the error InvalidSignature.
C2_SignatureRejection ==
    (lpc = "done" /\ Len(buff) >= 2 /\ ~SignatureOk(buff)) => lres = Err(InvalidSignature)

\* C3: a buffer holding a 54-byte header with signature 'BM' in which exactly one of
\* info-header size, planes, bits-per-pixel, compression holds an unsupported value v
\* decodes to the error named for that field, carrying v.
C3_UnsupportedField ==
    (lpc = "done" /\ Len(buff) >= 54 /\ SignatureOk(buff) /\ UnsupportedFields(buff) = 1) =>
        /\ ~SizeOk(buff) => lres = Err(InvalidHeaderSize(FieldU32(buff, 14)))
        /\ ~PlanesOk(buff) => lres = Err(UnsupportedPlaneCount(FieldU16(buff, 26)))
        /\ ~DepthOk(buff) => lres = Err(UnsupportedColorDepth(FieldU16(buff, 28)))
        /\ ~CompressionOk(buff) => lres = Err(UnsupportedCompression(FieldU32(buff, 30)))

\* C3's case: a decode of a header whose only unsupported field is bits-per-pixel (8)
\* has ended
C3_Witness ==
    /\ lpc = "done"
    /\ Len(buff) >= 54
    /\ SignatureOk(buff)
    /\ UnsupportedFields(buff) = 1
    /\ FieldU16(buff, 28) = 8
    /\ lres = Err(UnsupportedColorDepth(8))

\* the fields of a buffer too short for its headers that are wholly present are valid
PresentFieldsValid(b) ==
    /\ Len(b) >= 1 => b[1] = 66
    /\ Len(b) >= 2 => b[2] = 77
    /\ Len(b) >= 18 => SizeOk(b)
    /\ Len(b) >= 28 => PlanesOk(b)
    /\ Len(b) >= 30 => DepthOk(b)
    /\ Len(b) >= 34 => CompressionOk(b)

\* the buffer ends inside the file header, the info header, a pixel row or a row's padding
Truncated(b) ==
    \/ Len(b) < 54 /\ PresentFieldsValid(b)
    \/ /\ Len(b) >= 54
       /\ HeaderValid(b)
       /\ Len(b) < 54 + PixelDataLen(FieldU32(b, 18), FieldU32(b, 22))

\* C4: a buffer that ends before the bytes its decode needs, its fields so far valid,
\* decodes to the error FileError: no panic, no image.
C4_Truncation ==
    (lpc = "done" /\ Truncated(buff)) => lres = Err(FileError)

\* C5: a buffer with a valid header and all its pixel data decodes to the image of
\* the specification's layout, whatever the fields that are not validated, the
\* padding and the bytes after the last row hold.
C5_DecoderResult ==
    (/\ lpc = "done"
     /\ Len(buff) >= 54
     /\ HeaderValid(buff)
     /\ Len(buff) >= 54 + PixelDataLen(FieldU32(buff, 18), FieldU32(buff, 22)))
        => lres = Ok(ExpectedImage(buff))

\* C10: the parse decides the signature before it reads the info header and decides
\* size, planes, depth, compression in this order before it reads pixels; a decode
\* that ends in a validation error ends in the error of the first failing check and
\* has not entered read_pixels, and a buffer holding all 54 header bytes with an
\* invalid field ends in that error.
C10_ValidationOrder ==
    /\ IsPrefix(log, ParseOrder)
    /\ Logged("read_info_header") => SignatureOk(buff)
    /\ Logged("read_pixels") => HeaderValid(buff)
    /\ (lpc = "done" /\ lres.kind = "Err" /\ lres.err.tag \in ValidationErrors) =>
           /\ lres = Err(FirstFailing(buff))
           /\ ~Logged("read_pixels")
    /\ (lpc = "done" /\ Len(buff) >= 54 /\ ~HeaderValid(buff)) =>
           lres = Err(FirstFailing(buff))

\* C10's case: a decode of a header with two unsupported fields, size (38) and
\* compression (1), has ended in the error of the first of them
C10_Witness ==
    /\ lpc = "done"
    /\ Len(buff) >= 54
    /\ SignatureOk(buff)
    /\ FieldU32(buff, 14) = U32(38)
    /\ FieldU32(buff, 30) = U32(1)
    /\ lres = Err(InvalidHeaderSize(U32(38)))
    /\ ~Logged("read_pixels")

-----------------------------------------------------------------------------
(* Claims about the encoder and the round trip, under Spec *)

PixelCount == Len(image.pixels)

\* the images the encoder's contract covers: width > 0 and pixel_count % width = 0
Encodable == image.width # U32(0) /\ Rem(U32(PixelCount), image.width) = U32(0)

\* height = pixel_count / width, as a natural number
ImageHeight == IF Lt(U32(PixelCount), image.width) THEN 0 ELSE PixelCount \div ToNat(image.width)

\* save_bmp is past line 111 and holds the encoded buffer in buff
Encoded == spc \in {"create", "write"} \/ (spc = "done" /\ sres.kind = "Ok")

\* save_bmp has ended without writing a file
EncodeFailed == spc = "done" /\ sres.kind # "Ok"

\* C1: for every image with width > 0 and pixel_count % width = 0, save_bmp followed
\* by load_bmp of the same file succeeds and returns the image's width and pixels.
C1_RoundTrip ==
    Encodable =>
        /\ spc = "done" => sres = Ok(NoImage)
        /\ lpc = "done" => lres = Ok(image)

\* C6: for every such image the u32 at offset 2 of the encoded buffer is
\* 14 + 40 + height*padding + pixel_count*3, which is the buffer's length, and the
\* u32 at offset 10 is 54.
C6_FileSize ==
    Encodable =>
        /\ ~EncodeFailed
        /\ Encoded =>
               /\ FieldU32(sbuff, 2)
                      = U32(14 + 40 + ImageHeight * TruePadding(image.width) + PixelCount * 3)
               /\ FieldU32(sbuff, 2) = U32(Len(sbuff))
               /\ FieldU32(sbuff, 10) = U32(54)

\* C7: for every u32 width the padding the encoder and the decoder compute is
\* (4 - (width*3) % 4) % 4 of the true product, lies in 0..3 and makes the row
\* length a multiple of 4, and the computation never fails.
C7_PaddingLaw ==
    /\ spc # "encode" =>
           LET w3 == CheckedMul(image.width, U32(3))
           IN  /\ sres # Panic(MulOverflow)
               /\ PaddingOf(w3.val) = U32(TruePadding(image.width))
               /\ TruePadding(image.width) \in 0..3
               /\ (WideMul(image.width, U32(3))[1] + TruePadding(image.width)) % 4 = 0
    /\ (lpc = "done" /\ Logged("read_pixels")) => lres # Panic(MulOverflow)

\* C9: for every such image, on-disk row i of the encoded buffer starts at offset
\* 54 + i*(3*width + padding) and holds logical row height-1-i as b, g, r triples,
\* followed by padding bytes that are all zero.
C9_PixelLayout ==
    Encodable =>
        /\ ~EncodeFailed
        /\ Encoded =>
               \A i \in 0..(ImageHeight - 1) :
                   LET w   == ToNat(image.width)
                       row == 54 + i * RowBytes(w)
                   IN  /\ \A j \in 0..(w - 1) :
                              LET p == image.pixels[(ImageHeight - 1 - i) * w + j + 1]
                              IN  /\ sbuff[row + 3 * j + 1] = p.b
                                  /\ sbuff[row + 3 * j + 2] = p.g
                                  /\ sbuff[row + 3 * j + 3] = p.r
                       /\ RowBytes(w) = 3 * w + TruePadding(image.width)
                       /\ \A k \in (3 * w + 1)..RowBytes(w) : sbuff[row + k] = 0

-----------------------------------------------------------------------------
(* Claim about a concurrent save and load, under SpecConcurrent *)

\* load_bmp has opened the file and read_to_end has returned
Loaded == lpc \in {"read_header", "read_info_header", "read_pixels"} \/ (lpc = "done" /\ log # <<>>)

\* C8: a load_bmp interleaved with a save_bmp of the same path observes the complete
\* previous contents or the complete new contents of the file.
C8_AtomicPersistence ==
    Loaded => buff \in {OldContents, save_bmp_buff(image, overflow_checks).buff}

====
